---- MODULE Spec2Model ----
(***************************************************************************)
(* Model of the Cluster reconciler of cluster-api                          *)
(* (controllers/cluster_controller.go): the reconcile entry point, the     *)
(* normal-path phase reconciler, the cascading deletion path, the          *)
(* descendant graph and the Machine -> Cluster watch mapper.               *)
(*                                                                         *)
(* One reconcile pass is one action: the controller runtime serialises the *)
(* passes of a key and a pass issues its store calls one after another.    *)
(* The object store, the providers' objects and the other controllers are  *)
(* the environment.                                                        *)
(***************************************************************************)
EXTENDS Naturals, Sequences, FiniteSets

VARIABLES
    gate,         \* feature.Gates.Enabled(feature.MachinePool)
    cluster,      \* the Cluster object as stored
    descendants,  \* the objects labelled for the Cluster, by name
    external,     \* the objects ControlPlaneRef / InfrastructureRef name
    pass,         \* what the last reconcile pass did and returned
    phaseIn,      \* outcomes of the phase steps handed to reconcile (SpecPhases)
    mapper        \* input and output of the watch mapper (SpecMapper)

vars == <<gate, cluster, descendants, external, pass, phaseIn, mapper>>

----------------------------------------------------------------------------
(* Bounds *)

\* At most this many descendants exist in an initial state.
MaxDesc == 2

\* Requeue-after hints of the phase steps range over 0..MaxRequeue seconds.
MaxRequeue == 2

\* metadata.generation of the Cluster ranges over 1..MaxGeneration.
MaxGeneration == 2

----------------------------------------------------------------------------
(* Program constants *)

\* deleteRequeueAfter = 5 * time.Second
deleteRequeueAfter == 5

----------------------------------------------------------------------------
(* The universe of descendants: one object of each kind the controller      *)
(* lists.  The order of Universe is the order in which the store lists.     *)

Universe == <<"pool", "deployment", "machineset", "worker", "cpmachine">>

Names == {Universe[i] : i \in 1..Len(Universe)}

KindOf(n) ==
    CASE n = "pool" -> "MachinePool"
      [] n = "deployment" -> "MachineDeployment"
      [] n = "machineset" -> "MachineSet"
      [] OTHER -> "Machine"

\* util.IsControlPlaneMachine: the Machine carries the control-plane label.
IsControlPlaneMachine(n) == n = "cpmachine"

\* A descendant is absent, or stored: live or with a deletion timestamp
\* ("deleting"), with or without an owner reference to the Cluster, and, a
\* Machine, with or without a node reference.
Absent == [st |-> "absent", owned |-> FALSE, nodeRef |-> FALSE]

\* The key of a request: the namespace and the name of its Cluster.
NoKey == [ns |-> "none", name |-> "none"]

NoPass ==
    [key |-> NoKey, path |-> "none", wasDeleting |-> FALSE, hadFinalizer |-> FALSE,
     wasInitialized |-> FALSE, wasObserved |-> 0,
     requeueAfter |-> 0, errs |-> <<>>,
     eligible |-> {}, listed |-> {}, counted |-> 0, deleteCalls |-> <<>>,
     cpGet |-> "skipped", infraGet |-> "skipped", extDeletes |-> <<>>,
     addedFinalizer |-> FALSE, removedFinalizer |-> FALSE,
     steps |-> <<>>, reterr |-> <<>>, deferred |-> <<>>,
     patchOpts |-> {}, patched |-> FALSE, wrote |-> FALSE,
     write |-> "none", storeFails |-> FALSE, conflicts |-> {},
     computed |-> [controlPlaneReady |-> "unset",
                   infrastructureReady |-> "unset"],
     ready |-> "none", again |-> FALSE, prevPath |-> "none"]

\* The Clusters the watch mapper can be asked about.
ClusterNames == {"c1", "c2"}

NoObject == [kind |-> "none", name |-> "none", nodeRef |-> FALSE,
             clusterName |-> "none"]

NoMapper ==
    [obj |-> NoObject, clusters |-> [n \in ClusterNames |-> "absent"],
     getFails |-> FALSE, requests |-> <<>>, done |-> FALSE]

NoSteps == [i \in 1..3 |-> [requeueAfter |-> 0, err |-> FALSE]]

NoPhaseIn == [steps |-> NoSteps, fault |-> "none", ready |-> "none"]

----------------------------------------------------------------------------
(* Sequence helpers *)

RECURSIVE Flatten(_)
Flatten(ss) == IF ss = <<>> THEN <<>> ELSE Head(ss) \o Flatten(Tail(ss))

Range(s) == {s[i] : i \in 1..Len(s)}

----------------------------------------------------------------------------
(* Errors.  An error is a sequence of tags, <<>> being nil.                 *)

\* kerrors.NewAggregate: nil errors are dropped, an empty list is nil.
NewAggregate(errs) == Flatten(errs)

----------------------------------------------------------------------------
(* DescendantGraph *)

\* One listed object, as the List call returns it.
Item(d, n) ==
    [name |-> n, owned |-> d[n].owned,
     deleting |-> d[n].st = "deleting", nodeRef |-> d[n].nodeRef]

\* r.Client.List(ctx, &list, listOptions...): the stored objects of one kind
\* that carry the Cluster's label, in the store's order.
List(d, kind) ==
    LET sel == SelectSeq(Universe,
                         LAMBDA n : KindOf(n) = kind /\ d[n].st # "absent")
    IN [i \in 1..Len(sel) |-> Item(d, sel[i])]

splitMachineList(list) ==
    [controlplanes |-> SelectSeq(list, LAMBDA m : IsControlPlaneMachine(m.name)),
     nodes |-> SelectSeq(list, LAMBDA m : ~IsControlPlaneMachine(m.name))]

\* listDescendants with the control-plane Machines kept whatever the
\* Cluster's ControlPlaneRef.
listDescendantsAllMachines(c, d, g) ==
    LET split == splitMachineList(List(d, "Machine"))
    IN [machineDeployments |-> List(d, "MachineDeployment"),
        machineSets |-> List(d, "MachineSet"),
        machinePools |-> IF g THEN List(d, "MachinePool") ELSE <<>>,
        workerMachines |-> split.nodes,
        controlPlaneMachines |-> split.controlplanes]

\* The clusterDescendants of a successful query.
listDescendants(c, d, g) ==
    LET split == splitMachineList(List(d, "Machine"))
    IN [machineDeployments |-> List(d, "MachineDeployment"),
        machineSets |-> List(d, "MachineSet"),
        machinePools |-> IF g THEN List(d, "MachinePool") ELSE <<>>,
        workerMachines |-> split.nodes,
        controlPlaneMachines |->
            IF ~c.controlPlaneRef THEN split.controlplanes ELSE <<>>]

length(ds) ==
    Len(ds.machineDeployments) + Len(ds.machineSets)
        + Len(ds.controlPlaneMachines) + Len(ds.workerMachines)

\* util.IsOwnedByObject(acc, cluster)
IsOwnedByObject(o) == o.owned

\* filterOwnedDescendants with the MachinePools appended instead of prepended.
filterOwnedDescendantsPoolsLast(ds, g) ==
    LET lists == <<ds.machineDeployments, ds.machineSets,
                   ds.workerMachines, ds.controlPlaneMachines>>
        all == IF g THEN lists \o <<ds.machinePools>> ELSE lists
    IN SelectSeq(Flatten(all), IsOwnedByObject)

filterOwnedDescendants(ds, g) ==
    LET lists == <<ds.machineDeployments, ds.machineSets,
                   ds.workerMachines, ds.controlPlaneMachines>>
        all == IF g THEN <<ds.machinePools>> \o lists ELSE lists
    IN SelectSeq(Flatten(all), IsOwnedByObject)

\* Every object the query returned, whatever its kind.
ListedNames(ds) ==
    {o.name : o \in Range(ds.machineDeployments) \cup Range(ds.machineSets)
                \cup Range(ds.machinePools) \cup Range(ds.workerMachines)
                \cup Range(ds.controlPlaneMachines)}

----------------------------------------------------------------------------
(* ExternalReferenceResolver *)

\* external.Get(ctx, r.Client, ref, namespace): the object, a NotFound error,
\* or another error.
Get(st, fails) ==
    IF fails THEN "error" ELSE IF st = "absent" THEN "notfound" ELSE "found"

\* The Ready condition a provider object reports: none, or its status.
Readiness == {"none", "True", "False"}

\* conditions.MarkFalse(cluster, t, clusterv1.DeletedReason, ...)
MarkFalseDeleted == "False/Deleted"

\* conditions.SetMirror(cluster, t, getter, WithFallbackValue(false,
\* clusterv1.DeletingReason, ...)): the object's Ready condition, and the
\* fallback when it has none.
SetMirror(ready) == IF ready = "none" THEN "False/Deleting" ELSE ready

\* refStep with the return after a successful delete left out.
refStepNoWait(ref, isSet, st, f) ==
    LET got == Get(st, f.fault = "get " \o ref)
    IN IF ~isSet
       THEN [get |-> "skipped", calls |-> <<>>, deleted |-> {},
             condition |-> "untouched", errs |-> <<>>, returns |-> FALSE]
       ELSE IF got = "notfound"
       THEN [get |-> got, calls |-> <<>>, deleted |-> {},
             condition |-> MarkFalseDeleted, errs |-> <<>>, returns |-> FALSE]
       ELSE IF got = "error"
       THEN [get |-> got, calls |-> <<>>, deleted |-> {},
             condition |-> "untouched",
             errs |-> <<"get " \o ref>>, returns |-> TRUE]
       ELSE IF f.fault = "delete " \o ref
       THEN [get |-> got, calls |-> <<ref>>, deleted |-> {},
             condition |-> SetMirror(f.ready),
             errs |-> <<"delete " \o ref>>, returns |-> TRUE]
       ELSE [get |-> got, calls |-> <<ref>>, deleted |-> {ref},
             condition |-> SetMirror(f.ready), errs |-> <<>>, returns |-> FALSE]

\* refStep going on after a Get that failed, as after NotFound.
refStepErrorAsNotFound(ref, isSet, st, f) ==
    LET got == Get(st, f.fault = "get " \o ref)
    IN IF ~isSet
       THEN [get |-> "skipped", calls |-> <<>>, deleted |-> {},
             condition |-> "untouched", errs |-> <<>>, returns |-> FALSE]
       ELSE IF got = "notfound" \/ got = "error"
       THEN [get |-> got, calls |-> <<>>, deleted |-> {},
             condition |-> MarkFalseDeleted, errs |-> <<>>, returns |-> FALSE]
       ELSE IF f.fault = "delete " \o ref
       THEN [get |-> got, calls |-> <<ref>>, deleted |-> {},
             condition |-> SetMirror(f.ready),
             errs |-> <<"delete " \o ref>>, returns |-> TRUE]
       ELSE [get |-> got, calls |-> <<ref>>, deleted |-> {ref},
             condition |-> SetMirror(f.ready), errs |-> <<>>, returns |-> TRUE]

\* One of the two reference blocks of reconcileDelete, for the reference
\* `ref` ("controlPlaneRef" or "infrastructureRef"): the three-way switch on
\* the Get, the condition it sets on the Cluster ("untouched": none), and
\* the delete of a found object.  `returns` says that reconcileDelete
\* returns from inside the block.
refStep(ref, isSet, st, f) ==
    LET got == Get(st, f.fault = "get " \o ref)
    IN IF ~isSet
       THEN [get |-> "skipped", calls |-> <<>>, deleted |-> {},
             condition |-> "untouched", errs |-> <<>>, returns |-> FALSE]
       ELSE IF got = "notfound"
       THEN [get |-> got, calls |-> <<>>, deleted |-> {},
             condition |-> MarkFalseDeleted, errs |-> <<>>, returns |-> FALSE]
       ELSE IF got = "error"
       THEN [get |-> got, calls |-> <<>>, deleted |-> {},
             condition |-> "untouched",
             errs |-> <<"get " \o ref>>, returns |-> TRUE]
       ELSE IF f.fault = "delete " \o ref
       THEN [get |-> got, calls |-> <<ref>>, deleted |-> {},
             condition |-> SetMirror(f.ready),
             errs |-> <<"delete " \o ref>>, returns |-> TRUE]
       ELSE [get |-> got, calls |-> <<ref>>, deleted |-> {ref},
             condition |-> SetMirror(f.ready), errs |-> <<>>, returns |-> TRUE]

----------------------------------------------------------------------------
(* CascadingDeletionCoordinator *)

\* deleteChildren leaving the loop at the first delete that fails.
deleteChildrenStopAtError(children, f) ==
    LET live == SelectSeq(children, LAMBDA ch : ~ch.deleting)
        all == [i \in 1..Len(live) |-> live[i].name]
        upTo == {i \in 1..Len(all) : all[i] \in f.deleteFails}
        last == IF upTo = {} THEN Len(all)
                ELSE CHOOSE i \in upTo : \A j \in upTo : i <= j
        calls == SubSeq(all, 1, last)
    IN [calls |-> calls,
        errs |-> SelectSeq(calls, LAMBDA n : n \in f.deleteFails),
        deleted |-> Range(calls) \ f.deleteFails]

\* The loop over the children: the delete calls issued, in order, and the
\* errors of those that failed.
deleteChildren(children, f) ==
    LET live == SelectSeq(children, LAMBDA ch : ~ch.deleting)
        calls == [i \in 1..Len(live) |-> live[i].name]
    IN [calls |-> calls,
        errs |-> SelectSeq(calls, LAMBDA n : n \in f.deleteFails),
        deleted |-> Range(calls) \ f.deleteFails]

Returned(c) ==
    [cluster |-> c, requeueAfter |-> 0, errs |-> <<>>,
     listed |-> {}, counted |-> 0, deleteCalls |-> <<>>, deleted |-> {},
     cpGet |-> "skipped", infraGet |-> "skipped",
     extDeletes |-> <<>>, extDeleted |-> {}, removedFinalizer |-> FALSE,
     steps |-> <<>>]

\* deleteReferences with the InfrastructureRef block before the
\* ControlPlaneRef block.
deleteReferencesInfrastructureFirst(c, e, f, r) ==
    LET cp == refStep("controlPlaneRef", c.controlPlaneRef, e.controlPlaneRef, f)
        infra == refStep("infrastructureRef", c.infrastructureRef,
                         e.infrastructureRef, f)
        r1 == [r EXCEPT !.infraGet = infra.get, !.extDeletes = infra.calls,
                        !.extDeleted = infra.deleted, !.errs = infra.errs,
                        !.cluster.infrastructureReady =
                            IF infra.condition = "untouched" THEN @
                            ELSE infra.condition]
        r2 == [r1 EXCEPT !.cpGet = cp.get, !.extDeletes = cp.calls,
                         !.extDeleted = cp.deleted, !.errs = cp.errs,
                         !.cluster.controlPlaneReady =
                            IF cp.condition = "untouched" THEN @
                            ELSE cp.condition]
    IN IF infra.returns THEN r1
       ELSE IF cp.returns THEN r2
       ELSE [r2 EXCEPT !.cluster.finalizer = FALSE, !.removedFinalizer = TRUE]

\* The tail of reconcileDelete, once no descendant is counted: the two
\* reference blocks, then the removal of the finalizer.
deleteReferences(c, e, f, r) ==
    LET cp == refStep("controlPlaneRef", c.controlPlaneRef, e.controlPlaneRef, f)
        infra == refStep("infrastructureRef", c.infrastructureRef,
                         e.infrastructureRef, f)
        r1 == [r EXCEPT !.cpGet = cp.get, !.extDeletes = cp.calls,
                        !.extDeleted = cp.deleted, !.errs = cp.errs,
                        !.cluster.controlPlaneReady =
                            IF cp.condition = "untouched" THEN @
                            ELSE cp.condition]
        r2 == [r1 EXCEPT !.infraGet = infra.get, !.extDeletes = infra.calls,
                         !.extDeleted = infra.deleted, !.errs = infra.errs,
                         !.cluster.infrastructureReady =
                            IF infra.condition = "untouched" THEN @
                            ELSE infra.condition]
    IN IF cp.returns THEN r1
       ELSE IF infra.returns THEN r2
       ELSE [r2 EXCEPT !.cluster.finalizer = FALSE, !.removedFinalizer = TRUE]

\* reconcileDelete going on to the references after a query that failed,
\* the error of the query kept for the return.
reconcileDeleteAfterListError(c, d, e, g, f) ==
    LET ds == listDescendants(c, d, g)
        children == filterOwnedDescendants(ds, g)
        del == deleteChildren(children, f)
        r == [Returned(c) EXCEPT
                !.listed = ListedNames(ds), !.counted = length(ds),
                !.deleteCalls = del.calls, !.deleted = del.deleted]
    IN IF f.fault = "list"
       THEN [deleteReferences(c, e, f, Returned(c)) EXCEPT
                !.errs = <<"list">> \o @]
       ELSE IF Len(children) > 0 /\ Len(del.errs) > 0
       THEN [r EXCEPT !.errs = NewAggregate(<<del.errs>>)]
       ELSE IF length(ds) > 0
       THEN [r EXCEPT !.requeueAfter = deleteRequeueAfter]
       ELSE deleteReferences(c, e, f, r)

reconcileDelete(c, d, e, g, f) ==
    LET ds == listDescendants(c, d, g)
        children == filterOwnedDescendants(ds, g)
        del == deleteChildren(children, f)
        r == [Returned(c) EXCEPT
                !.listed = ListedNames(ds), !.counted = length(ds),
                !.deleteCalls = del.calls, !.deleted = del.deleted]
    IN IF f.fault = "list"
       THEN [Returned(c) EXCEPT !.errs = <<"list">>]
       ELSE IF Len(children) > 0 /\ Len(del.errs) > 0
       THEN [r EXCEPT !.errs = NewAggregate(<<del.errs>>)]
       ELSE IF length(ds) > 0
       THEN [r EXCEPT !.requeueAfter = deleteRequeueAfter]
       ELSE deleteReferences(c, e, f, r)

----------------------------------------------------------------------------
(* PhaseReconciler *)

phases ==
    <<"reconcileInfrastructure", "reconcileControlPlane",
      "reconcileKubeconfig", "reconcileControlPlaneInitialized">>

\* What a phase step can return: a requeue-after hint and/or an error.
Outcomes == [requeueAfter : 0..MaxRequeue, err : BOOLEAN]

\* The outcomes of the three steps that reach out to the providers.
StepOutcomes == [1..3 -> Outcomes]

\* util.LowestNonZeroResult: the earlier of two results, a zero one being
\* no request at all.
LowestNonZeroResult(i, j) ==
    IF i = 0 THEN j ELSE IF j = 0 THEN i ELSE IF i < j THEN i ELSE j

\* getActiveMachinesInCluster: the Machines of the Cluster.
getActiveMachinesInCluster(d) == List(d, "Machine")

\* reconcileControlPlaneInitialized evaluated again on a Cluster that is
\* already initialized.
reconcileControlPlaneInitializedAgain(c, d, f) ==
    IF c.controlPlaneRef
    THEN [cluster |-> c, requeueAfter |-> 0, err |-> <<>>]
    ELSE IF f.fault = "machines"
    THEN [cluster |-> c, requeueAfter |-> 0,
          err |-> <<"reconcileControlPlaneInitialized">>]
    ELSE [cluster |->
            [c EXCEPT !.controlPlaneInitialized =
                \E m \in Range(getActiveMachinesInCluster(d)) :
                    IsControlPlaneMachine(m.name) /\ m.nodeRef],
          requeueAfter |-> 0, err |-> <<>>]

reconcileControlPlaneInitialized(c, d, f) ==
    IF c.controlPlaneRef \/ c.controlPlaneInitialized
    THEN [cluster |-> c, requeueAfter |-> 0, err |-> <<>>]
    ELSE IF f.fault = "machines"
    THEN [cluster |-> c, requeueAfter |-> 0,
          err |-> <<"reconcileControlPlaneInitialized">>]
    ELSE IF \E m \in Range(getActiveMachinesInCluster(d)) :
                IsControlPlaneMachine(m.name) /\ m.nodeRef
    THEN [cluster |-> [c EXCEPT !.controlPlaneInitialized = TRUE],
          requeueAfter |-> 0, err |-> <<>>]
    ELSE [cluster |-> c, requeueAfter |-> 0, err |-> <<>>]

\* The call phase(ctx, cluster) of step i.
phase(i, c, d, f) ==
    IF i = 4 THEN reconcileControlPlaneInitialized(c, d, f)
    ELSE [cluster |-> c, requeueAfter |-> f.steps[i].requeueAfter,
          err |-> IF f.steps[i].err THEN <<phases[i]>> ELSE <<>>]

\* mergePhase keeping the first error only.
mergePhaseFirstError(acc, i, r) ==
    LET errs == IF r.err # <<>> /\ acc.errs = <<>>
                THEN Append(acc.errs, r.err) ELSE acc.errs
    IN [cluster |-> r.cluster,
        res |-> IF Len(errs) > 0 \/ r.err # <<>> THEN acc.res
                ELSE LowestNonZeroResult(acc.res, r.requeueAfter),
        errs |-> errs,
        steps |-> Append(acc.steps, phases[i])]

\* mergePhase without the `continue`: the result is merged whatever failed.
mergePhaseNoSkip(acc, i, r) ==
    LET errs == IF r.err # <<>> THEN Append(acc.errs, r.err) ELSE acc.errs
    IN [cluster |-> r.cluster,
        res |-> LowestNonZeroResult(acc.res, r.requeueAfter),
        errs |-> errs,
        steps |-> Append(acc.steps, phases[i])]

\* The body of the loop after the call: the error is collected, and the
\* result is merged only while no error has been collected.
mergePhase(acc, i, r) ==
    LET errs == IF r.err # <<>> THEN Append(acc.errs, r.err) ELSE acc.errs
    IN [cluster |-> r.cluster,
        res |-> IF Len(errs) > 0 THEN acc.res
                ELSE LowestNonZeroResult(acc.res, r.requeueAfter),
        errs |-> errs,
        steps |-> Append(acc.steps, phases[i])]

\* runPhases leaving the loop at the first error.
RECURSIVE runPhasesStopOnError(_, _, _, _)
runPhasesStopOnError(i, acc, d, f) ==
    IF i > Len(phases) \/ Len(acc.errs) > 0 THEN acc
    ELSE runPhasesStopOnError(
            i + 1, mergePhase(acc, i, phase(i, acc.cluster, d, f)), d, f)

\* for _, phase := range phases, from step i on.
RECURSIVE runPhases(_, _, _, _)
runPhases(i, acc, d, f) ==
    IF i > Len(phases) THEN acc
    ELSE runPhases(i + 1, mergePhase(acc, i, phase(i, acc.cluster, d, f)), d, f)

reconcile(c, d, f) ==
    LET acc == runPhases(1, [cluster |-> c, res |-> 0, errs |-> <<>>,
                             steps |-> <<>>], d, f)
    IN [Returned(acc.cluster) EXCEPT
            !.requeueAfter = acc.res, !.errs = NewAggregate(acc.errs),
            !.steps = acc.steps]

----------------------------------------------------------------------------
(* ReconcileEntryPoint *)

Gone ==
    [exists |-> FALSE, finalizer |-> FALSE, deleting |-> FALSE,
     paused |-> FALSE, controlPlaneRef |-> FALSE,
     infrastructureRef |-> FALSE, controlPlaneInitialized |-> FALSE,
     controlPlaneReady |-> "unset", infrastructureReady |-> "unset",
     generation |-> 1, observedGeneration |-> 0]

\* controllerutil.ContainsFinalizer(cluster, clusterv1.ClusterFinalizer)
ContainsFinalizer(c) == c.finalizer

\* Branch without the check of the deletion timestamp.
BranchIgnoringDeletion(c) ==
    IF ~ContainsFinalizer(c) THEN "addFinalizer" ELSE "normal"

\* Branch with the deletion timestamp looked at before the finalizer.
BranchDeletionFirst(c) ==
    IF c.deleting THEN "delete"
    ELSE IF ~ContainsFinalizer(c) THEN "addFinalizer"
    ELSE "normal"

\* The path Reconcile delegates to, past the not-found and paused checks.
Branch(c) ==
    IF ~ContainsFinalizer(c) THEN "addFinalizer"
    ELSE IF c.deleting THEN "delete"
    ELSE "normal"

\* The delegated path and what it returns.
delegate(c, d, e, g, f) ==
    CASE Branch(c) = "addFinalizer" ->
            [Returned(c) EXCEPT !.cluster.finalizer = TRUE]
      [] Branch(c) = "delete" -> reconcileDelete(c, d, e, g, f)
      [] OTHER -> reconcile(c, d, f)

\* deferredCalls skipping the deferred work of a pass that failed.
deferredCallsOnSuccess(reterr) ==
    IF reterr = <<>> THEN <<"reconcilePhase", "patchCluster">> ELSE <<>>

\* The calls of the deferred function, which runs on every return past its
\* registration, whatever reterr.
deferredCalls(reterr) == <<"reconcilePhase", "patchCluster">>

\* patchOpts with the observed generation patched whatever the pass returned.
patchOptsAlways(reterr) == {"WithStatusObservedGeneration"}

\* The options of the deferred patch, reterr being what the delegated path
\* returned.
patchOpts(reterr) ==
    IF reterr = <<>> THEN {"WithStatusObservedGeneration"} ELSE {}

\* The fields another writer changes while a pass runs, "none" when the
\* Cluster has no other writer during the pass.
Writes ==
    {"none", "controlPlaneReady", "infrastructureReady", "paused",
     "controlPlaneInitialized"}

\* The value the other writer gives the field w.
OtherValue(w) ==
    IF w \in {"controlPlaneReady", "infrastructureReady"} THEN "Unknown"
    ELSE TRUE

\* The stored Cluster after the other writer's update of the field w.
Written(c, w) == IF w = "none" THEN c ELSE [c EXCEPT ![w] = OtherValue(w)]

\* patch.WithOwnedConditions without a condition.
OwnedConditionsNone == {}

\* patch.WithOwnedConditions{Conditions: ...}: the conditions patchCluster
\* declares as owned by this controller.
OwnedConditions == {"ready", "controlPlaneReady", "infrastructureReady"}

\* The fields of after that the pass changed and that the stored object no
\* longer holds as the pass read them.
Conflicts(before, after, stored) ==
    {fld \in DOMAIN after :
        after[fld] # before[fld] /\ stored[fld] # before[fld]}

\* patchHelper.Patch(ctx, cluster, options...): writes the fields the pass
\* changed since the helper was created onto the stored object; a conflict
\* on an owned condition is resolved in favour of the value of the pass,
\* any other conflict fails the patch.
Patch(before, after, stored, owned) ==
    IF Conflicts(before, after, stored) \subseteq owned
    THEN [cluster |->
            [fld \in DOMAIN stored |->
                IF after[fld] # before[fld] THEN after[fld] ELSE stored[fld]],
          err |-> <<>>]
    ELSE [cluster |-> stored, err |-> <<"patch">>]

\* patchCluster(ctx, patchHelper, cluster, patchOpts...): the object written
\* back, and the error of the write.
patchCluster(before, c, opts, f) ==
    LET after == IF "WithStatusObservedGeneration" \in opts
                 THEN [c EXCEPT !.observedGeneration = c.generation] ELSE c
        stored == Written(before, f.write)
    IN IF f.patchFails
       THEN [cluster |-> stored, err |-> <<"patch">>]
       ELSE Patch(before, after, stored, OwnedConditions)

\* A pass that returns before the patch helper exists.
Early(c, path, errs) ==
    [pass |-> [NoPass EXCEPT !.path = path, !.errs = errs,
                             !.wasDeleting = c.exists /\ c.deleting,
                             !.hadFinalizer = c.exists /\ c.finalizer,
                             !.wasInitialized = c.controlPlaneInitialized,
                             !.wasObserved = c.observedGeneration],
     cluster |-> c, deleted |-> {}, extDeleted |-> {}]

\* EarlyReturn without the check of the pause.
EarlyReturnIgnoringPause(c, f) ==
    IF f.fault = "get" THEN "getError"
    ELSE IF ~c.exists THEN "notFound"
    ELSE IF f.fault = "helper" THEN "helperError"
    ELSE "proceed"

\* The head of Reconcile: the return it takes before it delegates, or
\* "proceed".
EarlyReturn(c, f) ==
    IF f.fault = "get" THEN "getError"
    ELSE IF ~c.exists THEN "notFound"
    ELSE IF c.paused THEN "paused"
    ELSE IF f.fault = "helper" THEN "helperError"
    ELSE "proceed"

\* The deferred function of the pass, r being what the delegated path
\* returned: the options, the calls made, and the outcome of the patch.
deferredPatch(c, r, f) ==
    LET opts == patchOpts(r.errs)
        calls == deferredCalls(r.errs)
    IN [opts |-> opts, calls |-> calls,
        p |-> IF "patchCluster" \in Range(calls)
              THEN patchCluster(c, r.cluster, opts, f)
              ELSE [cluster |-> Written(c, f.write), err |-> <<>>]]

\* What a pass past the patch helper did and returned, r being the outcome
\* of the delegated path and q that of the deferred function.
PassResult(c, d, r, q, f) ==
    [pass |->
       [key |-> NoKey, path |-> Branch(c), wasDeleting |-> c.deleting,
        hadFinalizer |-> c.finalizer,
        wasInitialized |-> c.controlPlaneInitialized,
        wasObserved |-> c.observedGeneration,
        requeueAfter |-> r.requeueAfter,
        errs |-> NewAggregate(<<r.errs, q.p.err>>),
        eligible |-> {n \in Names : d[n].st = "live" /\ d[n].owned},
        listed |-> r.listed, counted |-> r.counted,
        deleteCalls |-> r.deleteCalls,
        cpGet |-> r.cpGet, infraGet |-> r.infraGet,
        extDeletes |-> r.extDeletes,
        addedFinalizer |-> ~c.finalizer /\ r.cluster.finalizer,
        removedFinalizer |-> r.removedFinalizer,
        steps |-> r.steps, reterr |-> r.errs, deferred |-> q.calls,
        patchOpts |-> q.opts,
        patched |-> "patchCluster" \in Range(q.calls) /\ q.p.err = <<>>,
        wrote |-> q.p.cluster # Written(c, f.write),
        write |-> f.write, storeFails |-> f.patchFails,
        conflicts |-> Conflicts(c, r.cluster, Written(c, f.write)),
        computed |-> [controlPlaneReady |-> r.cluster.controlPlaneReady,
                      infrastructureReady |-> r.cluster.infrastructureReady],
        ready |-> f.ready, again |-> FALSE, prevPath |-> "none"],
     cluster |-> q.p.cluster,
     deleted |-> r.deleted, extDeleted |-> r.extDeleted]

\* One pass of Reconcile(req) on the stored world (c, d, e), the store
\* failing as f says: what the pass did and returned, the Cluster as stored
\* afterwards, and the objects on which a delete succeeded.  The delegated
\* path runs once, and the deferred function once after it.
Reconcile(c, d, e, g, f) ==
    IF EarlyReturn(c, f) = "getError" THEN Early(c, "getError", <<"get">>)
    ELSE IF EarlyReturn(c, f) = "notFound" THEN Early(c, "notFound", <<>>)
    ELSE IF EarlyReturn(c, f) = "paused" THEN Early(c, "paused", <<>>)
    ELSE IF EarlyReturn(c, f) = "helperError"
    THEN Early(c, "helperError", <<"helper">>)
    ELSE CHOOSE out \in
            UNION {{PassResult(c, d, r, q, f) : q \in {deferredPatch(c, r, f)}} :
                      r \in {delegate(c, d, e, g, f)}} : TRUE

----------------------------------------------------------------------------
(* WatchMapper *)

\* util.GetClusterByName: the Cluster of that name, or an error.
GetClusterByName(clusters, name, fails) ==
    IF fails \/ name \notin DOMAIN clusters \/ clusters[name] = "absent"
    THEN [err |-> TRUE, initialized |-> FALSE]
    ELSE [err |-> FALSE, initialized |-> clusters[name] = "initialized"]

\* controlPlaneMachineToCluster without the check of the node reference.
controlPlaneMachineToClusterAnyNode(o, clusters, fails) ==
    LET got == GetClusterByName(clusters, o.clusterName, fails)
    IN IF o.kind # "Machine" THEN <<>>
       ELSE IF ~IsControlPlaneMachine(o.name) THEN <<>>
       ELSE IF got.err THEN <<>>
       ELSE IF got.initialized THEN <<>>
       ELSE <<o.clusterName>>

\* The requests returned for the changed object o.
controlPlaneMachineToCluster(o, clusters, fails) ==
    LET got == GetClusterByName(clusters, o.clusterName, fails)
    IN IF o.kind # "Machine" THEN <<>>
       ELSE IF ~IsControlPlaneMachine(o.name) THEN <<>>
       ELSE IF ~o.nodeRef THEN <<>>
       ELSE IF got.err THEN <<>>
       ELSE IF got.initialized THEN <<>>
       ELSE <<o.clusterName>>

----------------------------------------------------------------------------
(* The state machine *)

Fresh(cpRef, infraRef) ==
    [exists |-> TRUE, finalizer |-> FALSE, deleting |-> FALSE,
     paused |-> FALSE, controlPlaneRef |-> cpRef,
     infrastructureRef |-> infraRef, controlPlaneInitialized |-> FALSE,
     controlPlaneReady |-> "unset", infrastructureReady |-> "unset",
     generation |-> 1, observedGeneration |-> 0]

Present(d) == {n \in Names : d[n].st # "absent"}

\* The descendants that may exist when the Cluster is created, each with or
\* without an owner reference to it: none yet has a deletion timestamp or a
\* node reference.
InitDescendants ==
    {d \in [Names -> {Absent} \cup [st : {"live"}, owned : BOOLEAN,
                                    nodeRef : {FALSE}]] :
        Cardinality(Present(d)) <= MaxDesc}

Init ==
    /\ gate \in BOOLEAN
    /\ \E cp, infra \in BOOLEAN :
        /\ cluster = Fresh(cp, infra)
        /\ external \in [controlPlaneRef : IF cp THEN {"absent", "live"}
                                           ELSE {"absent"},
                         infrastructureRef : IF infra THEN {"absent", "live"}
                                             ELSE {"absent"}]
    /\ descendants \in InitDescendants
    /\ pass = NoPass
    /\ phaseIn = NoPhaseIn
    /\ mapper = NoMapper

\* The outcomes of the provider steps drawn in a pass of the whole
\* controller: every step succeeds without a hint, or one of them returns
\* the longest hint, or an error.
PassOutcomes ==
    {NoSteps} \cup
    {[NoSteps EXCEPT ![i] = o] :
        i \in 1..3, o \in {[requeueAfter |-> MaxRequeue, err |-> FALSE],
                           [requeueAfter |-> 0, err |-> TRUE]}}

\* The ways the store can fail during a pass on the Cluster c.
Faults(c) ==
    {"none", "get", "helper"} \cup
    IF ~c.exists \/ c.paused \/ Branch(c) = "addFinalizer" THEN {}
    ELSE IF Branch(c) = "delete"
    THEN {"list", "get controlPlaneRef", "delete controlPlaneRef",
          "get infrastructureRef", "delete infrastructureRef"}
    ELSE {"machines"}

Choices(c, d) ==
    [fault : Faults(c),
     deleteFails : IF c.exists /\ ~c.paused /\ Branch(c) = "delete"
                   THEN SUBSET {n \in Names : d[n].st = "live" /\ d[n].owned}
                   ELSE {{}},
     ready : IF c.exists /\ ~c.paused /\ Branch(c) = "delete"
                  /\ (c.controlPlaneRef \/ c.infrastructureRef)
             THEN Readiness ELSE {"none"},
     steps : IF c.exists /\ ~c.paused /\ Branch(c) = "normal"
             THEN PassOutcomes ELSE {NoSteps},
     patchFails : BOOLEAN,
     write : {"none"}]

\* The effect of a pass on the store.
Apply(out) ==
    /\ pass' = out.pass
    /\ cluster' = out.cluster
    /\ descendants' =
         [n \in Names |->
             IF n \in out.deleted
             THEN [descendants[n] EXCEPT !.st = "deleting"]
             ELSE descendants[n]]
    /\ external' =
         [ref \in DOMAIN external |->
             IF ref \in out.extDeleted THEN "deleting" ELSE external[ref]]

\* The work queue hands a request for the Cluster to Reconcile.
ReconcilePass ==
    /\ pass = NoPass
    /\ \E f \in Choices(cluster, descendants) :
        Apply(Reconcile(cluster, descendants, external, gate, f))
    /\ UNCHANGED <<gate, phaseIn, mapper>>

\* The work queue hands the request to Reconcile a second time before
\* anything else changed, the store answering every call.
ReconcileAgain ==
    /\ pass # NoPass /\ ~pass.again /\ pass.errs = <<>>
    /\ LET f == [fault |-> "none", deleteFails |-> {}, ready |-> pass.ready,
                 steps |-> NoSteps, patchFails |-> FALSE, write |-> "none"]
           out == Reconcile(cluster, descendants, external, gate, f)
       IN Apply([out EXCEPT !.pass.again = TRUE, !.pass.prevPath = pass.path])
    /\ UNCHANGED <<gate, phaseIn, mapper>>

\* The work queue takes the result of the pass.
Requeue ==
    /\ pass # NoPass
    /\ pass' = NoPass
    /\ UNCHANGED <<gate, cluster, descendants, external, phaseIn, mapper>>

\* A user asks for the deletion of the Cluster.
RequestDeletion ==
    /\ pass = NoPass
    /\ cluster.exists /\ ~cluster.deleting
    /\ cluster' = [cluster EXCEPT !.deleting = TRUE]
    /\ UNCHANGED <<gate, descendants, external, pass, phaseIn, mapper>>

\* The store drops the Cluster once it has a deletion timestamp and no
\* finalizer is left on it, the Cluster finalizer or another controller's.
CollectCluster ==
    /\ pass = NoPass
    /\ cluster.exists /\ cluster.deleting /\ ~cluster.finalizer
    /\ cluster' = Gone
    /\ UNCHANGED <<gate, descendants, external, pass, phaseIn, mapper>>

\* The owner of an indirect descendant deletes it.
DeleteDescendant(n) ==
    /\ pass = NoPass
    /\ descendants[n].st = "live" /\ ~descendants[n].owned
    /\ descendants' = [descendants EXCEPT ![n].st = "deleting"]
    /\ UNCHANGED <<gate, cluster, external, pass, phaseIn, mapper>>

\* A descendant with a deletion timestamp is finalized and disappears.
DescendantGone(n) ==
    /\ pass = NoPass
    /\ descendants[n].st = "deleting"
    /\ descendants' = [descendants EXCEPT ![n] = Absent]
    /\ UNCHANGED <<gate, cluster, external, pass, phaseIn, mapper>>

\* A control-plane Machine gets its node.
AssignNodeRef(n) ==
    /\ pass = NoPass
    /\ KindOf(n) = "Machine" /\ IsControlPlaneMachine(n)
    /\ descendants[n].st = "live" /\ ~descendants[n].nodeRef
    /\ descendants' = [descendants EXCEPT ![n].nodeRef = TRUE]
    /\ UNCHANGED <<gate, cluster, external, pass, phaseIn, mapper>>

\* A control-plane Machine loses its node.
LoseNodeRef(n) ==
    /\ pass = NoPass
    /\ KindOf(n) = "Machine" /\ IsControlPlaneMachine(n)
    /\ descendants[n].st # "absent" /\ descendants[n].nodeRef
    /\ descendants' = [descendants EXCEPT ![n].nodeRef = FALSE]
    /\ UNCHANGED <<gate, cluster, external, pass, phaseIn, mapper>>

\* A provider finalizes its object, which disappears.
ExternalGone(ref) ==
    /\ pass = NoPass
    /\ external[ref] = "deleting"
    /\ external' = [external EXCEPT ![ref] = "absent"]
    /\ UNCHANGED <<gate, cluster, descendants, pass, phaseIn, mapper>>

Next ==
    \/ ReconcilePass
    \/ ReconcileAgain
    \/ Requeue
    \/ RequestDeletion
    \/ CollectCluster
    \/ \E n \in Names : DeleteDescendant(n)
    \/ \E n \in Names : DescendantGone(n)
    \/ \E n \in Names : AssignNodeRef(n)
    \/ \E n \in Names : LoseNodeRef(n)
    \/ \E ref \in {"controlPlaneRef", "infrastructureRef"} : ExternalGone(ref)

Spec == Init /\ [][Next]_vars

----------------------------------------------------------------------------
(* The entry point under pauses and changes of the Cluster's spec, for a    *)
(* Cluster with at most one control-plane Machine.                          *)

\* A user pauses the Cluster.
Pause ==
    /\ pass = NoPass
    /\ cluster.exists /\ ~cluster.paused
    /\ cluster' = [cluster EXCEPT !.paused = TRUE]
    /\ UNCHANGED <<gate, descendants, external, pass, phaseIn, mapper>>

\* A user resumes the Cluster.
Unpause ==
    /\ pass = NoPass
    /\ cluster.exists /\ cluster.paused
    /\ cluster' = [cluster EXCEPT !.paused = FALSE]
    /\ UNCHANGED <<gate, descendants, external, pass, phaseIn, mapper>>

\* A user changes the spec of the Cluster: the store bumps its generation.
UpdateSpec ==
    /\ pass = NoPass
    /\ cluster.exists /\ cluster.generation < MaxGeneration
    /\ cluster' = [cluster EXCEPT !.generation = @ + 1]
    /\ UNCHANGED <<gate, descendants, external, pass, phaseIn, mapper>>

InitEntry ==
    /\ Init
    /\ gate = FALSE
    /\ Present(descendants) \subseteq {"cpmachine"}

NextEntry ==
    \/ Next
    \/ Pause
    \/ Unpause
    \/ UpdateSpec

SpecEntry == InitEntry /\ [][NextEntry]_vars

----------------------------------------------------------------------------
(* Passes during which another writer updates the Cluster: the update       *)
(* reaches the store after the pass created its patch helper and before the *)
(* deferred patch, for a Cluster with at most one control-plane Machine.    *)

\* The choices of a pass that goes past the patch helper, with the field the
\* other writer changes meanwhile.
ConcurrentChoices(c, d) ==
    {[f EXCEPT !.write = w] :
        f \in {h \in Choices(c, d) : h.fault \notin {"get", "helper"}},
        w \in {x \in Writes \ {"none"} : c[x] # OtherValue(x)}}

\* The work queue hands a request for the Cluster to Reconcile, and another
\* writer updates the Cluster while the pass runs.
ConcurrentPass ==
    /\ pass = NoPass
    /\ cluster.exists /\ ~cluster.paused
    /\ \E f \in ConcurrentChoices(cluster, descendants) :
        Apply(Reconcile(cluster, descendants, external, gate, f))
    /\ UNCHANGED <<gate, phaseIn, mapper>>

InitPatch == InitEntry

NextPatch ==
    \/ Next
    \/ ConcurrentPass

SpecPatch == InitPatch /\ [][NextPatch]_vars

----------------------------------------------------------------------------
(* Two Clusters in one store.  cluster maps the key (namespace and name) of *)
(* each Cluster to the object, and descendants holds, for each name, an     *)
(* object with its namespace, its cluster-name label and the names of the   *)
(* Clusters of its owner references.  Neither Cluster has a provider        *)
(* reference, and MachinePools are off.  The store holds a MachineSet of    *)
(* the first Cluster and a worker Machine in any namespace, with any label  *)
(* and any owner references.                                                *)

Namespaces == {"ns1", "ns2"}

\* The names of the objects the store holds when the Clusters are created.
StoredNames == {"machineset", "worker"}

\* The key of the first Cluster, and the keys the second one can have: the
\* other name in the same namespace, or the same name in the other one.
KeyA == [ns |-> "ns1", name |-> "c1"]

KeysB == {[ns |-> "ns1", name |-> "c2"], [ns |-> "ns2", name |-> "c1"]}

Keys == {KeyA} \cup KeysB

\* The list options without client.InNamespace.
MatchesListOptionsAnyNamespace(o, key) == o.label = key.name

\* listOptions: client.InNamespace(cluster.Namespace) and
\* client.MatchingLabels({ClusterLabelName: cluster.Name}).
MatchesListOptions(o, key) == o.ns = key.ns /\ o.label = key.name

\* The owned flag that util.IsOwnedByObject(acc, cluster) reads: one of the
\* owner references of the object names the Cluster.
HasOwnerReferenceTo(o, key) == key.name \in o.owners

\* What the store answers to the queries of a pass for the Cluster key: the
\* stored objects that match the list options, with whether they carry an
\* owner reference to the Cluster.
Listing(d, key) ==
    [n \in Names |->
        IF d[n].st # "absent" /\ MatchesListOptions(d[n], key)
        THEN [st |-> d[n].st, owned |-> HasOwnerReferenceTo(d[n], key),
              nodeRef |-> d[n].nodeRef]
        ELSE Absent]

NoExternal == [controlPlaneRef |-> "absent", infrastructureRef |-> "absent"]

InitTwo ==
    /\ gate = FALSE
    /\ \E keyB \in KeysB :
        cluster = [key \in {KeyA, keyB} |-> Fresh(FALSE, FALSE)]
    /\ descendants \in
         [Names -> {Absent} \cup
                   [st : {"live"}, nodeRef : {FALSE}, ns : Namespaces,
                    label : ClusterNames, owners : SUBSET ClusterNames]]
    /\ Present(descendants) = StoredNames
    /\ descendants["machineset"] =
         [st |-> "live", nodeRef |-> FALSE, ns |-> KeyA.ns,
          label |-> KeyA.name, owners |-> {KeyA.name}]
    /\ external = NoExternal
    /\ pass = NoPass
    /\ phaseIn = NoPhaseIn
    /\ mapper = NoMapper

\* The work queue hands a request for the Cluster key to Reconcile.
ReconcileKey(key) ==
    /\ pass = NoPass
    /\ key \in DOMAIN cluster
    /\ \E f \in Choices(cluster[key], Listing(descendants, key)) :
        LET out == Reconcile(cluster[key], Listing(descendants, key),
                             external, gate, f)
        IN /\ pass' = [out.pass EXCEPT !.key = key]
           /\ cluster' = [cluster EXCEPT ![key] = out.cluster]
           /\ descendants' =
                [n \in Names |->
                    IF n \in out.deleted
                    THEN [descendants[n] EXCEPT !.st = "deleting"]
                    ELSE descendants[n]]
    /\ UNCHANGED <<gate, external, phaseIn, mapper>>

\* A user asks for the deletion of the Cluster key.
RequestDeletionOf(key) ==
    /\ pass = NoPass
    /\ key \in DOMAIN cluster
    /\ cluster[key].exists /\ ~cluster[key].deleting
    /\ cluster' = [cluster EXCEPT ![key].deleting = TRUE]
    /\ UNCHANGED <<gate, descendants, external, pass, phaseIn, mapper>>

\* The store drops the Cluster key once it has a deletion timestamp and no
\* finalizer.
CollectClusterOf(key) ==
    /\ pass = NoPass
    /\ key \in DOMAIN cluster
    /\ cluster[key].exists /\ cluster[key].deleting
    /\ ~cluster[key].finalizer
    /\ cluster' = [cluster EXCEPT ![key] = Gone]
    /\ UNCHANGED <<gate, descendants, external, pass, phaseIn, mapper>>

NextTwo ==
    \/ \E key \in Keys : ReconcileKey(key)
    \/ Requeue
    \/ \E key \in Keys : RequestDeletionOf(key)
    \/ \E key \in Keys : CollectClusterOf(key)
    \/ \E n \in Names : DescendantGone(n)

SpecTwo == InitTwo /\ [][NextTwo]_vars

----------------------------------------------------------------------------
(* The teardown of a Cluster that has a deletion timestamp and the          *)
(* finalizer, with the work queue as the only source of passes: the first   *)
(* pass is queued, and a pass is queued again when the previous one         *)
(* returned an error or a requeue delay.  pass = NoPass says that a pass is *)
(* queued; a pass record that asks for nothing stays, and no pass follows.  *)
(* The Cluster has MachineSets and worker Machines, owned or not.           *)

NoFault ==
    [fault |-> "none", deleteFails |-> {}, ready |-> "none",
     steps |-> NoSteps, patchFails |-> FALSE, write |-> "none"]

InitLive ==
    /\ gate = FALSE
    /\ \E cp, infra \in BOOLEAN :
        /\ cluster = [Fresh(cp, infra) EXCEPT !.finalizer = TRUE,
                                              !.deleting = TRUE,
                                              !.observedGeneration = 1]
        /\ external = [controlPlaneRef |-> IF cp THEN "live" ELSE "absent",
                       infrastructureRef |-> IF infra THEN "live" ELSE "absent"]
    /\ descendants \in
        {d \in InitDescendants : Present(d) \subseteq {"machineset", "worker"}}
    /\ pass = NoPass
    /\ phaseIn = NoPhaseIn
    /\ mapper = NoMapper

\* The queued pass runs and the store answers every call.
CleanPass ==
    /\ pass = NoPass
    /\ Apply(Reconcile(cluster, descendants, external, gate, NoFault))
    /\ UNCHANGED <<gate, phaseIn, mapper>>

\* The queued pass runs and some store call fails.
FaultyPass ==
    /\ pass = NoPass
    /\ \E f \in Choices(cluster, descendants) \ {NoFault} :
        Apply(Reconcile(cluster, descendants, external, gate, f))
    /\ UNCHANGED <<gate, phaseIn, mapper>>

\* The work queue queues the next pass: after an error (with backoff) or
\* after the requeue delay.
RequeueOnResult ==
    /\ pass # NoPass
    /\ pass.errs # <<>> \/ pass.requeueAfter > 0
    /\ pass' = NoPass
    /\ UNCHANGED <<gate, cluster, descendants, external, phaseIn, mapper>>

\* The owner of an indirect descendant deletes it, at any time.
IndirectDeleted(n) ==
    /\ descendants[n].st = "live" /\ ~descendants[n].owned
    /\ descendants' = [descendants EXCEPT ![n].st = "deleting"]
    /\ UNCHANGED <<gate, cluster, external, pass, phaseIn, mapper>>

\* A descendant with a deletion timestamp disappears, at any time.
DeletedDescendantGone(n) ==
    /\ descendants[n].st = "deleting"
    /\ descendants' = [descendants EXCEPT ![n] = Absent]
    /\ UNCHANGED <<gate, cluster, external, pass, phaseIn, mapper>>

\* A provider object with a deletion timestamp disappears, at any time.
DeletedExternalGone(ref) ==
    /\ external[ref] = "deleting"
    /\ external' = [external EXCEPT ![ref] = "absent"]
    /\ UNCHANGED <<gate, cluster, descendants, pass, phaseIn, mapper>>

NextLive ==
    \/ CleanPass
    \/ FaultyPass
    \/ RequeueOnResult
    \/ \E n \in Names : IndirectDeleted(n)
    \/ \E n \in Names : DeletedDescendantGone(n)
    \/ \E ref \in {"controlPlaneRef", "infrastructureRef"} :
            DeletedExternalGone(ref)

\* Deleted objects and indirect descendants eventually disappear, and the
\* work queue eventually queues the pass it owes.
FairLive ==
    /\ WF_vars(RequeueOnResult)
    /\ \A n \in Names : WF_vars(IndirectDeleted(n))
    /\ \A n \in Names : WF_vars(DeletedDescendantGone(n))
    /\ \A ref \in {"controlPlaneRef", "infrastructureRef"} :
            WF_vars(DeletedExternalGone(ref))

SpecLive == InitLive /\ [][NextLive]_vars /\ FairLive

----------------------------------------------------------------------------
(* The phase reconciler on its own: reconcile is applied once to a Cluster  *)
(* on the normal path, with the outcomes of the provider steps drawn in the *)
(* initial state and kept in phaseIn.                                       *)

\* The Machines of the drawn Cluster: any of the two, with or without a node.
PhaseMachines ==
    {d \in [Names -> {Absent} \cup [st : {"live"}, owned : {TRUE},
                                    nodeRef : BOOLEAN]] :
        \A n \in Present(d) : KindOf(n) = "Machine"}

InitPhases ==
    /\ gate = FALSE
    /\ \E cp, init \in BOOLEAN :
        cluster = [Fresh(cp, FALSE) EXCEPT !.finalizer = TRUE,
                                           !.controlPlaneInitialized = init]
    /\ external = [controlPlaneRef |-> "absent", infrastructureRef |-> "absent"]
    /\ descendants \in PhaseMachines
    /\ pass = NoPass
    /\ phaseIn \in [steps : StepOutcomes, fault : {"none", "machines"},
                     ready : {"none"}]
    /\ mapper = NoMapper

\* reconcile(ctx, cluster) is called with the drawn outcomes.
RunPhases ==
    /\ pass = NoPass
    /\ LET r == reconcile(cluster, descendants, phaseIn)
       IN /\ pass' = [NoPass EXCEPT !.path = "normal",
                                    !.hadFinalizer = TRUE,
                                    !.wasInitialized =
                                        cluster.controlPlaneInitialized,
                                    !.requeueAfter = r.requeueAfter,
                                    !.errs = r.errs, !.steps = r.steps]
          /\ cluster' = r.cluster
    /\ UNCHANGED <<gate, descendants, external, phaseIn, mapper>>

NextPhases == RunPhases

SpecPhases == InitPhases /\ [][NextPhases]_vars

----------------------------------------------------------------------------
(* The watch mapper on its own: it is applied once to a changed object      *)
(* drawn in the initial state.                                              *)

MapperObjects ==
    [kind : {"Machine", "MachineSet"}, name : {"worker", "cpmachine"},
     nodeRef : BOOLEAN, clusterName : ClusterNames]

InitMapper ==
    /\ gate = FALSE
    /\ cluster = Gone
    /\ external = [controlPlaneRef |-> "absent", infrastructureRef |-> "absent"]
    /\ descendants = [n \in Names |-> Absent]
    /\ pass = NoPass
    /\ phaseIn = NoPhaseIn
    /\ mapper \in [obj : MapperObjects,
                   clusters : [ClusterNames ->
                                {"absent", "uninitialized", "initialized"}],
                   getFails : BOOLEAN, requests : {<<>>}, done : {FALSE}]

\* The watch delivers the changed object to the mapper.
MapEvent ==
    /\ ~mapper.done
    /\ mapper' = [mapper EXCEPT
                    !.requests = controlPlaneMachineToCluster(
                                    mapper.obj, mapper.clusters, mapper.getFails),
                    !.done = TRUE]
    /\ UNCHANGED <<gate, cluster, descendants, external, pass, phaseIn>>

NextMapper == MapEvent

SpecMapper == InitMapper /\ [][NextMapper]_vars

----------------------------------------------------------------------------
(* The scenario of a Cluster with an InfrastructureRef, no ControlPlaneRef  *)
(* and one owned control-plane Machine, which gets its node; other          *)
(* descendants may exist beside it.                                         *)

InitScenario ==
    /\ gate \in BOOLEAN
    /\ cluster = Fresh(FALSE, TRUE)
    /\ external = [controlPlaneRef |-> "absent", infrastructureRef |-> "live"]
    /\ descendants \in
        {d \in InitDescendants :
            d["cpmachine"] = [st |-> "live", owned |-> TRUE, nodeRef |-> FALSE]}
    /\ pass = NoPass
    /\ phaseIn = NoPhaseIn
    /\ mapper = NoMapper

SpecScenario == InitScenario /\ [][Next]_vars

----------------------------------------------------------------------------
(* Properties.  `pass` describes the pass that has just returned; it is     *)
(* NoPass between passes.                                                   *)

DeletionPass == pass.path = "delete"

\* The descendant query of the pass succeeded.
Queried == DeletionPass /\ "list" \notin Range(pass.errs)

\* Some delete call on a descendant failed in the pass.
DeleteFailed == \E n \in Names : n \in Range(pass.errs)

\* The place of a descendant in the deletion order of the kinds.
Rank(n) ==
    CASE KindOf(n) = "MachinePool" -> 1
      [] KindOf(n) = "MachineDeployment" -> 2
      [] KindOf(n) = "MachineSet" -> 3
      [] KindOf(n) = "Machine" /\ ~IsControlPlaneMachine(n) -> 4
      [] OTHER -> 5

\* C1: a deletion pass removes the finalizer only if its descendant query
\* returned no object at all: no MachineDeployment, MachineSet, worker or
\* control-plane Machine and, the MachinePool feature being enabled, no
\* MachinePool.
C1_FinalizerOnlyWithoutDescendants ==
    pass.removedFinalizer => DeletionPass /\ pass.listed = {}

\* C2: a deletion pass removes the finalizer only if each of ControlPlaneRef
\* and InfrastructureRef is unset or was resolved as NotFound in that pass;
\* a pass that found one of the two objects does not remove it.
C2_FinalizerOnlyWithoutReferences ==
    /\ pass.removedFinalizer =>
        /\ DeletionPass
        /\ pass.cpGet = IF cluster.controlPlaneRef THEN "notfound" ELSE "skipped"
        /\ pass.infraGet =
                IF cluster.infrastructureRef THEN "notfound" ELSE "skipped"
        /\ cluster.controlPlaneRef => external.controlPlaneRef = "absent"
        /\ cluster.infrastructureRef => external.infrastructureRef = "absent"
    /\ pass.cpGet = "found" \/ pass.infraGet = "found" =>
        ~pass.removedFinalizer /\ (pass.hadFinalizer => cluster.finalizer)

\* A pass removed the finalizer after it resolved both references NotFound.
C2_Witness ==
    /\ pass.removedFinalizer
    /\ pass.cpGet = "notfound" /\ pass.infraGet = "notfound"

\* C3: no pass adds the Cluster finalizer to a Cluster whose deletion
\* timestamp is set, whether the Cluster never had it or the deletion path
\* has removed it.
C3_NoFinalizerAddedWhileDeleting ==
    pass.wasDeleting => ~pass.addedFinalizer

\* C4: a deletion pass that gets to count its descendants (the query and
\* every delete call succeeded) and whose query returned some descendant,
\* owned or not, returns a requeue delay of exactly 5 seconds and leaves the
\* finalizer as it was.
C4_DescendantsRequeue ==
    Queried /\ ~DeleteFailed /\ pass.listed # {} =>
        /\ pass.requeueAfter = deleteRequeueAfter
        /\ ~pass.removedFinalizer /\ ~pass.addedFinalizer
        /\ cluster.finalizer

\* C5: the delete calls of a pass follow the order of the kinds,
\* MachinePools, MachineDeployments, MachineSets, worker Machines,
\* control-plane Machines, and a MachinePool is deleted only with the
\* feature enabled.
C5_DeleteOrder ==
    /\ \A i, j \in 1..Len(pass.deleteCalls) :
        i < j => Rank(pass.deleteCalls[i]) <= Rank(pass.deleteCalls[j])
    /\ "pool" \in Range(pass.deleteCalls) => gate

\* A pass deleted a MachinePool and then a control-plane Machine.
C5_Witness ==
    pass.deleteCalls = <<"pool", "cpmachine">>

\* The non-zero hints of the provider steps that ran before the first
\* failing step (the control-plane-initialized step never returns a hint).
HintsBeforeFailure ==
    {phaseIn.steps[i].requeueAfter :
        i \in {k \in 1..3 : \A j \in 1..k : ~phaseIn.steps[j].err}} \ {0}

Earliest(hints) ==
    IF hints = {} THEN 0 ELSE CHOOSE m \in hints : \A h \in hints : m <= h

\* C6: the requeue-after returned by the phase reconciler is the earliest
\* non-zero hint among the steps that ran before the first failing step, and
\* zero when there is none; the hints of the failing step and of the later
\* steps do not count.
C6_EarliestHintBeforeFailure ==
    pass.path = "normal" => pass.requeueAfter = Earliest(HintsBeforeFailure)

\* The first step asked for 2 seconds, and the second failed while asking
\* for 1 second: the pass returned 2 seconds.
C6_Witness ==
    /\ pass.path = "normal"
    /\ phaseIn.steps[1] = [requeueAfter |-> 2, err |-> FALSE]
    /\ phaseIn.steps[2] = [requeueAfter |-> 1, err |-> TRUE]
    /\ pass.requeueAfter = 2

\* C7: a normal-path pass invokes the four steps once each, in their order,
\* whichever of them failed; the last step still records a control plane
\* that has a node when an earlier step failed.
C7_EveryStepRuns ==
    pass.path = "normal" =>
        /\ pass.steps = phases
        /\ (/\ ~cluster.controlPlaneRef
            /\ phaseIn.fault # "machines"
            /\ descendants["cpmachine"].st # "absent"
            /\ descendants["cpmachine"].nodeRef)
           => cluster.controlPlaneInitialized

\* The first step failed, the four steps ran, and the last one recorded the
\* control plane as initialized.
C7_Witness ==
    /\ pass.path = "normal"
    /\ phaseIn.steps[1].err
    /\ pass.steps = phases
    /\ pass.errs = <<"reconcileInfrastructure">>
    /\ cluster.controlPlaneInitialized

\* The mapper's input asks for a request.
MapperWants ==
    /\ mapper.obj.kind = "Machine"
    /\ mapper.obj.name = "cpmachine"
    /\ mapper.obj.nodeRef
    /\ ~mapper.getFails
    /\ mapper.clusters[mapper.obj.clusterName] = "uninitialized"

\* C8: the watch mapper returns one request, for the Machine's Cluster, if
\* the object is a control-plane Machine with a node reference whose Cluster
\* is found and not yet control-plane-initialized, and no request otherwise.
C8_MapperRequests ==
    mapper.done =>
        mapper.requests =
            IF MapperWants THEN <<mapper.obj.clusterName>> ELSE <<>>

\* The mapper returned a request for the Cluster c1, c2 being initialized.
C8_Witness ==
    /\ mapper.done
    /\ mapper.requests = <<"c1">>
    /\ mapper.clusters["c2"] = "initialized"

\* C9: in the scenario of a Cluster with an InfrastructureRef, no
\* ControlPlaneRef and the control-plane Machine "cpmachine", a normal-path pass without error
\* that sees the Machine with its node leaves control-plane-initialized
\* true; a deletion pass deletes the Machine after every other descendant;
\* the infrastructure object is deleted only in a pass whose query returned
\* no descendant, and that pass ends without removing the finalizer; the
\* finalizer is removed only in a pass that resolves the infrastructure
\* object as NotFound.
C9_Scenario ==
    cluster.exists =>
        /\ (/\ pass.path = "normal" /\ pass.errs = <<>>
            /\ descendants["cpmachine"].st # "absent"
            /\ descendants["cpmachine"].nodeRef)
           => cluster.controlPlaneInitialized
        /\ \A i \in 1..Len(pass.deleteCalls) :
            pass.deleteCalls[i] = "cpmachine" => i = Len(pass.deleteCalls)
        /\ "infrastructureRef" \in Range(pass.extDeletes) =>
            /\ pass.listed = {}
            /\ ~pass.removedFinalizer /\ cluster.finalizer
        /\ pass.removedFinalizer => pass.infraGet = "notfound"

\* A pass that got to the finalizer check and found the finalizer absent.
FoundNoFinalizer == pass.path = "addFinalizer"

\* The pass ran no deletion step and no normal-path step.
RanNothing ==
    /\ pass.steps = <<>>
    /\ pass.listed = {} /\ pass.deleteCalls = <<>>
    /\ pass.cpGet = "skipped" /\ pass.infraGet = "skipped"
    /\ pass.extDeletes = <<>>
    /\ ~pass.removedFinalizer

\* C10, as claimed: a pass that finds the finalizer absent adds it and
\* returns an empty result and no error, and runs neither path; a path runs
\* only in a pass that started with the finalizer.
C10_AddFinalizerOnly_Claimed ==
    /\ FoundNoFinalizer =>
        /\ pass.addedFinalizer /\ RanNothing
        /\ pass.requeueAfter = 0 /\ pass.errs = <<>>
    /\ pass.path \in {"delete", "normal"} => pass.hadFinalizer

\* C10, amended: a pass that finds the finalizer absent adds it, runs
\* neither path and returns an empty result; it returns no error, and the
\* finalizer is stored, unless the patch at the end of the pass fails, and
\* then it returns the error of the patch alone.  A path runs only in a pass
\* that started with the finalizer.
C10_AddFinalizerOnly ==
    /\ FoundNoFinalizer =>
        /\ ~pass.hadFinalizer /\ pass.addedFinalizer /\ RanNothing
        /\ pass.requeueAfter = 0
        /\ pass.errs = IF pass.patched THEN <<>> ELSE <<"patch">>
        /\ cluster.finalizer <=> pass.patched
    /\ pass.path \in {"delete", "normal"} => pass.hadFinalizer
    /\ ~RanNothing => pass.hadFinalizer

\* The deletion request landed before the first pass, which recorded the
\* finalizer and did nothing else.
C10_Witness ==
    /\ FoundNoFinalizer /\ pass.wasDeleting
    /\ pass.patched /\ cluster.finalizer

\* Some control-plane Machine of the Cluster has a node reference.
ControlPlaneHasNode ==
    \E n \in Names :
        /\ KindOf(n) = "Machine" /\ IsControlPlaneMachine(n)
        /\ descendants[n].st # "absent" /\ descendants[n].nodeRef

\* The pass ran the normal path on a Cluster without ControlPlaneRef.
NormalPassOwnControlPlane == pass.path = "normal" /\ ~cluster.controlPlaneRef

\* Once stored as true, control-plane-initialized stays true as long as the
\* Cluster exists, whatever changes.
InitializedLatch ==
    [][(cluster.exists /\ cluster.controlPlaneInitialized /\ cluster'.exists)
            => cluster'.controlPlaneInitialized]_vars

\* C11, as claimed: after a normal-path pass on a Cluster without
\* ControlPlaneRef, control-plane-initialized is its value before the pass or
\* the presence of a control-plane Machine with a node reference; once true
\* it stays true; with a ControlPlaneRef the pass leaves it as it was.
C11_InitializedLatch_Claimed ==
    /\ [](NormalPassOwnControlPlane =>
            (cluster.controlPlaneInitialized
                <=> (pass.wasInitialized \/ ControlPlaneHasNode)))
    /\ [](pass.path = "normal" /\ cluster.controlPlaneRef =>
            (cluster.controlPlaneInitialized <=> pass.wasInitialized))
    /\ InitializedLatch

\* C11, amended: after a normal-path pass on a Cluster without
\* ControlPlaneRef whose Machine query and whose patch succeeded,
\* control-plane-initialized is its value before the pass or the presence of
\* a control-plane Machine with a node reference, whatever the other steps
\* returned; after a pass whose Machine query or patch failed it is its value
\* before the pass.  Once true it stays true, and with a ControlPlaneRef the
\* pass leaves it as it was.
C11_InitializedLatch ==
    /\ [](NormalPassOwnControlPlane =>
            (cluster.controlPlaneInitialized
                <=> \/ pass.wasInitialized
                    \/ /\ ControlPlaneHasNode
                       /\ pass.patched
                       /\ "reconcileControlPlaneInitialized"
                              \notin Range(pass.errs)))
    /\ [](pass.path = "normal" /\ cluster.controlPlaneRef =>
            (cluster.controlPlaneInitialized <=> pass.wasInitialized))
    /\ InitializedLatch

\* A normal-path pass left control-plane-initialized true although the
\* control-plane Machine that had the node is gone.
C11_Witness ==
    /\ NormalPassOwnControlPlane
    /\ pass.wasInitialized /\ cluster.controlPlaneInitialized
    /\ descendants["cpmachine"].st = "absent"

\* The pass issued no delete call and changed nothing in the stored Cluster:
\* no finalizer, no condition, no status field.
NoSideEffect ==
    /\ pass.deleteCalls = <<>> /\ pass.extDeletes = <<>>
    /\ ~pass.addedFinalizer /\ ~pass.removedFinalizer
    /\ ~pass.wrote

\* C12: a pass that runs right after a pass of the same path without error,
\* nothing having changed in between, has no side effect: it issues no
\* delete call and changes neither the finalizer nor a condition nor the
\* status, on the normal path and on the deletion path, also while a
\* descendant or a referenced object is being deleted.
C12_Idempotence ==
    pass.again /\ pass.prevPath = pass.path => NoSideEffect

\* C13: a pass for a Cluster that the fetch reports as not found, or that
\* is paused, returns an empty result and no error and changes nothing: it
\* runs no step of either path, adds and removes no finalizer, issues no
\* delete call and writes no patch, also when the paused Cluster has a
\* deletion timestamp.
C13_NotFoundOrPausedNoOp ==
    pass # NoPass /\ (~cluster.exists \/ cluster.paused)
        /\ pass.path # "getError" =>
            /\ pass.path = IF cluster.exists THEN "paused" ELSE "notFound"
            /\ pass.requeueAfter = 0 /\ pass.errs = <<>>
            /\ RanNothing /\ NoSideEffect
            /\ pass.patchOpts = {} /\ ~pass.patched

\* A pass left alone a paused Cluster that is being deleted and has the
\* finalizer and a child to delete.
C13_Witness ==
    /\ pass.path = "paused" /\ pass.wasDeleting /\ pass.hadFinalizer
    /\ descendants["cpmachine"] =
            [st |-> "live", owned |-> TRUE, nodeRef |-> FALSE]

\* The pass got to its deferred patch.
Delegated == pass.path \in {"addFinalizer", "delete", "normal"}

\* The delegated path of the pass returned an error.
DelegatedFailed == \E i \in 1..Len(pass.errs) : pass.errs[i] # "patch"

\* C14: the patch at the end of a pass sets observedGeneration if and only
\* if the delegated path returned no error: a written patch of such a pass
\* leaves observedGeneration equal to the generation, and after a pass whose
\* delegated path failed observedGeneration has the value it had before.
C14_ObservedGeneration ==
    Delegated =>
        /\ "WithStatusObservedGeneration" \in pass.patchOpts
                <=> ~DelegatedFailed
        /\ pass.patched /\ ~DelegatedFailed =>
                cluster.observedGeneration = cluster.generation
        /\ DelegatedFailed =>
                cluster.observedGeneration = pass.wasObserved

\* The delegated path failed on a Cluster whose spec had changed: the patch
\* was written and observedGeneration stayed behind.
C14_Witness ==
    /\ Delegated /\ DelegatedFailed /\ pass.patched
    /\ cluster.generation = 2 /\ cluster.observedGeneration = 1

\* Queued passes keep running and the store does not fail for ever: again
\* and again a pass has returned without error.
StoreEventuallySucceeds == []<>(pass # NoPass /\ pass.errs = <<>>)

\* C15: the teardown of a Cluster with a deletion timestamp and the
\* finalizer completes: when deleted objects and indirect descendants
\* eventually disappear, store calls eventually succeed and a pass follows
\* every pass that returned an error or a requeue delay, and nothing else
\* triggers a pass, the finalizer is eventually removed.
C15_TeardownCompletes ==
    StoreEventuallySucceeds => <>(~cluster.finalizer)

\* The pass ran no step of the deletion coordinator.
RanNoDeletionStep ==
    /\ pass.listed = {} /\ pass.deleteCalls = <<>>
    /\ pass.cpGet = "skipped" /\ pass.infraGet = "skipped"
    /\ pass.extDeletes = <<>>
    /\ ~pass.removedFinalizer

\* C16: a pass on a Cluster whose deletion timestamp is set invokes no
\* normal-path step; when it delegates to one of the two paths, that is the
\* deletion coordinator; and no pass runs steps of both paths.
C16_DeletingNeverNormal ==
    /\ pass.wasDeleting =>
        /\ pass.steps = <<>> /\ pass.path # "normal"
        /\ pass.hadFinalizer /\ Delegated => pass.path = "delete"
    /\ pass.steps # <<>> => RanNoDeletionStep /\ pass.path = "normal"
    /\ pass.path = "delete" => pass.wasDeleting /\ pass.steps = <<>>

\* A Cluster that the normal path had marked control-plane-initialized is
\* deleted: the pass deletes its control-plane Machine and runs no
\* normal-path step.
C16_Witness ==
    /\ pass.wasDeleting /\ pass.path = "delete"
    /\ pass.wasInitialized
    /\ pass.deleteCalls = <<"cpmachine">>

\* The control-plane Machine is stored.
ControlPlaneMachineStored == descendants["cpmachine"].st # "absent"

\* The descendants that are no control-plane Machines.
OtherDescendants == {n \in Present(descendants) : ~IsControlPlaneMachine(n)}

\* C17: in a deletion pass on a Cluster with a ControlPlaneRef the
\* control-plane Machines are neither listed, nor counted, nor deleted: the
\* pass requeues after 5 seconds only for other descendants, and without
\* them goes on to the references.  Without a ControlPlaneRef a stored
\* control-plane Machine is listed and counted, holds the pass back from the
\* references and the finalizer, and is issued a delete if it is owned and
\* not yet being deleted.
C17_ControlPlaneMachinesInvisible ==
    Queried =>
        /\ cluster.controlPlaneRef =>
            /\ "cpmachine" \notin pass.listed
            /\ "cpmachine" \notin Range(pass.deleteCalls)
            /\ pass.counted <= Cardinality(OtherDescendants)
            /\ pass.requeueAfter = deleteRequeueAfter => OtherDescendants # {}
            /\ OtherDescendants = {} => pass.cpGet # "skipped"
        /\ ~cluster.controlPlaneRef /\ ControlPlaneMachineStored =>
            /\ "cpmachine" \in pass.listed /\ pass.counted >= 1
            /\ "cpmachine" \in pass.eligible =>
                    "cpmachine" \in Range(pass.deleteCalls)
            /\ pass.infraGet = "skipped" /\ ~pass.removedFinalizer

\* An owned, live control-plane Machine is stored, and the pass on the
\* Cluster with a ControlPlaneRef removed the finalizer without a delete.
C17_Witness ==
    /\ Queried /\ cluster.controlPlaneRef
    /\ descendants["cpmachine"] = [st |-> "live", owned |-> TRUE, nodeRef |-> FALSE]
    /\ pass.deleteCalls = <<>> /\ pass.removedFinalizer

\* A deletion pass whose query returned no descendant, on a Cluster with a
\* ControlPlaneRef.
ControlPlaneRefPass == Queried /\ pass.listed = {} /\ cluster.controlPlaneRef

\* The pass went on to the InfrastructureRef step and, past it, to the
\* finalizer.
WentOnToInfrastructure ==
    IF cluster.infrastructureRef THEN pass.infraGet # "skipped"
    ELSE pass.removedFinalizer

\* The pass stopped at the ControlPlaneRef step, the finalizer kept.
StoppedAtControlPlane ==
    /\ pass.infraGet = "skipped"
    /\ ~pass.removedFinalizer /\ cluster.finalizer

\* C18: a deletion pass with no descendant on a Cluster with a
\* ControlPlaneRef takes one of three branches.  Get returns NotFound: the
\* control-plane-readiness condition is set to False/Deleted and the pass
\* goes on to the InfrastructureRef step.  Get fails otherwise: the pass
\* returns that error, issues no delete, changes nothing and keeps the
\* finalizer.  Get returns the object: the condition mirrors the object's
\* readiness, False/Deleting when it has none, one delete is issued on the
\* object, and the pass returns with the finalizer kept.
C18_ControlPlaneRefBranches ==
    ControlPlaneRefPass =>
        \/ /\ pass.cpGet = "notfound"
           /\ external.controlPlaneRef = "absent"
           /\ pass.patched => cluster.controlPlaneReady = "False/Deleted"
           /\ pass.extDeletes \in {<<>>, <<"infrastructureRef">>}
           /\ WentOnToInfrastructure
        \/ /\ pass.cpGet = "error"
           /\ "get controlPlaneRef" \in Range(pass.errs)
           /\ pass.extDeletes = <<>> /\ ~pass.wrote
           /\ StoppedAtControlPlane
        \/ /\ pass.cpGet = "found"
           /\ external.controlPlaneRef # "absent"
           /\ pass.patched =>
                cluster.controlPlaneReady =
                    IF pass.ready = "none" THEN "False/Deleting" ELSE pass.ready
           /\ pass.extDeletes = <<"controlPlaneRef">>
           /\ pass.requeueAfter = 0
           /\ StoppedAtControlPlane

\* The pass found the control-plane object reporting Ready = True, mirrored
\* it and issued the delete.
C18_Witness ==
    /\ ControlPlaneRefPass /\ pass.cpGet = "found"
    /\ pass.ready = "True" /\ cluster.controlPlaneReady = "True"
    /\ external.controlPlaneRef = "deleting"
    /\ cluster.infrastructureRef /\ external.infrastructureRef = "live"

\* C19: the references are torn down one after the other.  A pass issues
\* at most one delete on a referenced object; it issues none on the
\* InfrastructureRef object, and does not even resolve it, when it found the
\* ControlPlaneRef object or failed to resolve it; so the infrastructure
\* object gets its deletion timestamp only when the Cluster has no
\* ControlPlaneRef or its object is gone.
C19_ReferencesOneByOne ==
    /\ Len(pass.extDeletes) <= 1
    /\ pass.cpGet \in {"found", "error"} =>
        /\ pass.infraGet = "skipped"
        /\ "infrastructureRef" \notin Range(pass.extDeletes)
    /\ "infrastructureRef" \in Range(pass.extDeletes) =>
        /\ pass.cpGet = IF cluster.controlPlaneRef THEN "notfound" ELSE "skipped"
        /\ pass.infraGet = "found"
    /\ cluster.exists /\ external.infrastructureRef = "deleting" =>
        ~cluster.controlPlaneRef \/ external.controlPlaneRef = "absent"

\* A pass observed the control-plane object as NotFound and issued the
\* delete on the infrastructure object.
C19_Witness ==
    /\ DeletionPass /\ pass.cpGet = "notfound"
    /\ pass.extDeletes = <<"infrastructureRef">>
    /\ external.infrastructureRef = "deleting"

\* The descendants a deletion pass on the Cluster takes into account.
Visible(n) ==
    /\ KindOf(n) = "MachinePool" => gate
    /\ KindOf(n) = "Machine" /\ IsControlPlaneMachine(n) =>
            ~cluster.controlPlaneRef

\* The delete calls of the pass that failed: their objects are still stored
\* without a deletion timestamp.
FailedDeletes ==
    SelectSeq(pass.deleteCalls, LAMBDA n : descendants[n].st = "live")

\* C20: a deletion pass in which the delete of some owned descendant fails
\* returns the errors of all the deletes that failed, in one aggregate and
\* without a requeue delay, and stops there: it resolves and deletes no
\* reference and keeps the finalizer.  It has nevertheless issued a delete
\* on every owned descendant that was not yet being deleted.
C20_ChildDeleteFailure ==
    Queried /\ DeleteFailed =>
        /\ SelectSeq(pass.errs, LAMBDA x : x # "patch") = FailedDeletes
        /\ FailedDeletes # <<>>
        /\ pass.requeueAfter = 0
        /\ pass.cpGet = "skipped" /\ pass.infraGet = "skipped"
        /\ pass.extDeletes = <<>>
        /\ ~pass.removedFinalizer /\ cluster.finalizer
        /\ Range(pass.deleteCalls) = {n \in pass.eligible : Visible(n)}

\* The delete of the MachineSet failed; the delete of the worker Machine,
\* which comes after it, was issued and succeeded.
C20_Witness ==
    /\ Queried
    /\ pass.deleteCalls = <<"machineset", "worker">>
    /\ pass.errs = <<"machineset">>
    /\ descendants["machineset"].st = "live"
    /\ descendants["worker"].st = "deleting"

\* The listed descendants on which the pass issues no delete: those without
\* an owner reference to the Cluster, and those that had a deletion
\* timestamp before the pass.
ListedNotDeleted ==
    {n \in pass.listed :
        \/ ~descendants[n].owned
        \/ descendants[n].st = "deleting" /\ n \notin Range(pass.deleteCalls)}

\* C21: in a deletion pass the delete calls go to exactly the listed
\* descendants that have an owner reference to the Cluster and no deletion
\* timestamp, once each; a listed descendant that is indirect or already
\* being deleted gets no delete call, and still keeps the pass from the
\* references and from removing the finalizer.
C21_DeleteExactlyOwnedLive ==
    Queried =>
        /\ Range(pass.deleteCalls) = pass.eligible \cap pass.listed
        /\ Len(pass.deleteCalls) = Cardinality(Range(pass.deleteCalls))
        /\ ListedNotDeleted # {} =>
            /\ pass.counted >= 1
            /\ pass.cpGet = "skipped" /\ pass.infraGet = "skipped"
            /\ ~pass.removedFinalizer /\ cluster.finalizer

\* C22: a deletion pass that returns an error leaves the finalizer on the
\* Cluster; the finalizer goes only in a pass that returns an empty result
\* and no error.  A pass whose descendant query fails returns that error
\* without a requeue delay, issues no delete call and does not touch the
\* finalizer.
C22_ErrorKeepsFinalizer ==
    DeletionPass =>
        /\ pass.errs # <<>> => cluster.finalizer
        /\ ~cluster.finalizer =>
                pass.removedFinalizer /\ pass.requeueAfter = 0 /\ pass.errs = <<>>
        /\ ~Queried =>
            /\ pass.requeueAfter = 0
            /\ pass.deleteCalls = <<>> /\ pass.extDeletes = <<>>
            /\ pass.cpGet = "skipped" /\ pass.infraGet = "skipped"
            /\ ~pass.removedFinalizer /\ ~pass.addedFinalizer
            /\ cluster.finalizer

\* The query failed in a pass on a Cluster without references that had an
\* owned child to delete: nothing was deleted and the finalizer stayed.
C22_Witness ==
    /\ DeletionPass /\ pass.errs = <<"list">>
    /\ ~cluster.controlPlaneRef /\ ~cluster.infrastructureRef
    /\ pass.eligible = {"worker"} /\ Present(descendants) = {"worker"}
    /\ cluster.finalizer

\* Step i of the phase reconciler failed in the pass.
StepFailed(i) ==
    IF i < 4 THEN phaseIn.steps[i].err
    ELSE /\ phaseIn.fault = "machines"
         /\ ~cluster.controlPlaneRef /\ ~pass.wasInitialized

\* The names of the steps that failed, in step order.
FailedSteps ==
    LET failed == SelectSeq(<<1, 2, 3, 4>>, StepFailed)
    IN [k \in 1..Len(failed) |-> phases[failed[k]]]

\* C23: the error the phase reconciler returns is nil if and only if none
\* of the four steps failed; otherwise it is the aggregate of the errors of
\* all the steps that failed, in step order, those of the steps after the
\* first failure included.
C23_AllStepErrorsAggregated ==
    pass.path = "normal" =>
        /\ pass.errs = FailedSteps
        /\ pass.errs = <<>> <=> \A i \in 1..4 : ~StepFailed(i)

\* The first, the third and the last step failed: the three errors came
\* back in that order.
C23_Witness ==
    /\ pass.path = "normal"
    /\ pass.errs = <<"reconcileInfrastructure", "reconcileKubeconfig",
                     "reconcileControlPlaneInitialized">>
    /\ ~phaseIn.steps[2].err

\* What the deferred function of a pass does: it recomputes the phase, then
\* attempts the patch, once each.
PhaseThenPatch == pass.deferred = <<"reconcilePhase", "patchCluster">>

\* The error of the pass is what the delegated path returned, joined by the
\* error of the patch when the patch failed.
ErrorsJoined ==
    pass.errs = pass.reterr \o (IF pass.patched THEN <<>> ELSE <<"patch">>)

\* C24, as claimed: every pass that found the Cluster and found it not
\* paused ends with one recomputation of the phase followed by one patch
\* attempt; when the patch fails the pass returns the error of the delegated
\* path together with the error of the patch, hence an error even when the
\* delegated path succeeded.
C24_DeferredPatch_Claimed ==
    pass.path \notin {"none", "getError", "notFound", "paused"} =>
        /\ PhaseThenPatch
        /\ ErrorsJoined
        /\ ~pass.patched => pass.errs # <<>>

\* C24, amended: every pass that found the Cluster, found it not paused and
\* created its patch helper ends with one recomputation of the phase
\* followed by one patch attempt, whichever path it took and whatever that
\* path returned; when the patch fails the pass returns the error of the
\* delegated path together with the error of the patch, hence an error even
\* when the delegated path succeeded.  A pass that fails to create the patch
\* helper returns that error and neither recomputes nor patches, like the
\* passes that return before.
C24_DeferredPatch ==
    /\ Delegated =>
        /\ PhaseThenPatch
        /\ ErrorsJoined
        /\ ~pass.patched => pass.errs # <<>> /\ ~pass.wrote
    /\ pass # NoPass /\ ~Delegated =>
        /\ pass.deferred = <<>> /\ ~pass.patched /\ ~pass.wrote
        /\ pass.path = "helperError" => pass.errs = <<"helper">>

\* In a deletion pass both the delegated path and the patch failed: the
\* pass returned the two errors.
C24_Witness ==
    /\ DeletionPass /\ PhaseThenPatch
    /\ pass.reterr = <<"list">> /\ pass.errs = <<"list", "patch">>

----------------------------------------------------------------------------
(* C25 *)

\* The pass went past the patch helper while another writer changed a field.
ConcurrentWrite == Delegated /\ pass.write # "none"

\* The conditions the claim names as owned: Ready, ControlPlaneReady and
\* InfrastructureReady.
ReadyConditions == {"ready", "controlPlaneReady", "infrastructureReady"}

\* The other writer's update is in the stored object.
OtherWriteKept == cluster[pass.write] = OtherValue(pass.write)

\* The stored object holds the value the pass computed for the condition.
PassValueWritten == cluster[pass.write] = pass.computed[pass.write]

\* C25: when another writer updates the Cluster while a pass runs, the patch
\* at the end of the pass does not fail on a conflict confined to the owned
\* conditions and writes the values the pass computed for them; the other
\* writer's change to a field outside the owned conditions is never
\* overwritten: the patch leaves it when the pass did not change the field
\* and fails, writing nothing, when the pass changed it too.
C25_OwnedConditionsPatch ==
    ConcurrentWrite =>
        /\ pass.write \in ReadyConditions =>
              /\ pass.patched <=> ~pass.storeFails
              /\ pass.patched /\ pass.write \in pass.conflicts =>
                    PassValueWritten
              /\ pass.patched /\ pass.write \notin pass.conflicts =>
                    OtherWriteKept
        /\ pass.write \notin ReadyConditions =>
              /\ OtherWriteKept
              /\ pass.write \in pass.conflicts =>
                    ~pass.patched /\ ~pass.wrote
              /\ pass.conflicts = {} => (pass.patched <=> ~pass.storeFails)

\* A deletion pass marked the control plane's condition while the other
\* writer set it: the patch succeeded and stored the value of the pass.
C25_Witness ==
    /\ ConcurrentWrite /\ DeletionPass
    /\ pass.write = "controlPlaneReady"
    /\ pass.conflicts = {"controlPlaneReady"}
    /\ pass.patched /\ pass.errs = <<>>
    /\ cluster.controlPlaneReady = "False/Deleted"


----------------------------------------------------------------------------
(* C26 *)

\* The step is a pass for one of the two Clusters.
PassStep == pass = NoPass /\ pass' # NoPass

\* The stored object n is in the namespace of the Cluster key, carries its
\* cluster-name label and an owner reference to it.
BelongsTo(n, key) ==
    /\ descendants[n].st # "absent"
    /\ descendants[n].ns = key.ns
    /\ descendants[n].label = key.name
    /\ key.name \in descendants[n].owners

\* C26: a pass for one Cluster issues descendant delete calls only on
\* objects in that Cluster's namespace that carry its cluster-name label and
\* an owner reference to it, changes no other object, and leaves the other
\* Cluster, its finalizer and its status, as it was.
C26_Isolation ==
    [][PassStep =>
        /\ \A i \in 1..Len(pass'.deleteCalls) :
              BelongsTo(pass'.deleteCalls[i], pass'.key)
        /\ \A n \in Names :
              descendants'[n] # descendants[n] => BelongsTo(n, pass'.key)
        /\ \A key \in DOMAIN cluster :
              key # pass'.key => cluster'[key] = cluster[key]]_vars

\* A deletion pass for the first Cluster deleted its MachineSet while the
\* worker Machine, which belongs to the other Cluster and not to the first,
\* stayed live, and the other Cluster kept its finalizer.
C26_Witness ==
    /\ pass.key = KeyA /\ DeletionPass
    /\ pass.deleteCalls = <<"machineset">>
    /\ descendants["machineset"].st = "deleting"
    /\ \E key \in DOMAIN cluster :
        /\ key # KeyA
        /\ cluster[key].exists /\ cluster[key].finalizer
        /\ descendants["worker"].st = "live"
        /\ BelongsTo("worker", key) /\ ~BelongsTo("worker", KeyA)

====
